---------------------------- MODULE Spec2Model ----------------------------
(***************************************************************************)
(* Balance / ledger reconciliation of the PWA banking dashboard.           *)
(*                                                                         *)
(* The model follows src/unnamed/part_005 (the application component,      *)
(* lines 1-2661) and src/src/services/supabaseDataClient.js (the remote    *)
(* ledger gateway).  The program is single threaded: a handler runs        *)
(* without interruption up to its first await, and the code after an await *)
(* runs without interruption when the gateway's reply arrives.  Every      *)
(* action below is one such run.  An operation that is waiting for a reply *)
(* is an element of ops; it carries the values its closure captured when   *)
(* the handler was called (balance, accountId, tempId, newBalance).        *)
(*                                                                         *)
(* Amounts are integers (the smallest currency unit).                      *)
(***************************************************************************)
EXTENDS Integers, Sequences, FiniteSets

(***************************************************************************)
(* Bounds of the model.                                                    *)
(***************************************************************************)
\* Number of asynchronous operations (addTransaction, handleSaveBalance)
\* started in one behaviour.
MaxOps == 2

\* Gateway calls followed in one behaviour of the gateway specification.
MaxCalls == 3

\* Values typed into the amount field of the add and edit forms
\* (<input type="number">: negative values and zero can be entered).
AmountInputs == {-1, 0, 2}

\* Values typed into the balance field of the account popup.
BalanceInputs == {2}

\* Amounts typed into the recurring-payment and bill forms (min="0").
ScheduledAmountInputs == {1}

\* next_date of a payment the remote store holds at the start.
DateInputs == { << 2025, 1, 31 >>, << 2024, 2, 29 >>, << 2025, 12, 28 >> }

\* Dates picked in the recurring-payment form.
PickedDates == { << 2025, 3, 1 >> }

\* Balance of the account row a returning owner has in the remote store.
StoredBalance == 2

Types == {"income", "expense"}

Owners == {"a"}

NoUser == "nobody"

\* The description typed into the add form, as a description is modelled:
\* the text, followed by the suffix the code appends to it (none here).
FormDescription == << "note", "" >>

\* accountId is null until an account is known (useState(null), line 218).
NoAccount == 0

VARIABLES
    user,           \* useAuth().user: the signed-in owner, or NoUser
    currentPage,    \* "home" or "dashboard"
    balance,        \* displayed balance (useState(0), line 216)
    accountId,      \* id of the owner's account record, or NoAccount
    transactions,   \* in-memory transaction list, most recent first
    ops,            \* operations waiting for a reply of the gateway
    now,            \* the value Date.now() returned when last read
    started,        \* number of asynchronous operations started so far
    remoteTxns,     \* rows of the remote transactions table
    remoteAccounts, \* rows of the remote accounts table
    lastOp,         \* the step taken last, with its inputs
    recurringPayments, \* in-memory recurring payments (line 207)
    billReminders,  \* in-memory bill reminders (line 208)
    remoteRecurring, \* rows of the remote recurring_payments table
    remoteBills,    \* rows of the remote bill_reminders table
    localDb,        \* IndexedDB object store "transactions" (lines 56-59)
    timeZone,       \* the browser's time zone: "east" or "west" of UTC
    billPayments,   \* history: << bill id, id of a transaction confirmed for it >>
    deletedBills,   \* history: ids of the bills whose deletion was confirmed
    gatewayCall,    \* a call of a gateway function, followed on its own
    exported        \* the backup file downloaded last, or NoFile

vars == << user, currentPage, balance, accountId, transactions, ops, now,
           started, remoteTxns, remoteAccounts, lastOp, recurringPayments,
           billReminders, remoteRecurring, remoteBills, localDb, timeZone,
           billPayments, deletedBills, gatewayCall, exported >>

\* The parts of the state next to the transaction ledger and the account.
scheduleVars == << recurringPayments, remoteRecurring >>
billVars == << billReminders, remoteBills, billPayments, deletedBills >>
sideVars == << scheduleVars, billVars, localDb, timeZone, gatewayCall,
              exported >>

(***************************************************************************)
(* Helpers.                                                                *)
(***************************************************************************)
\* Identifiers: temporary ones are `temp_${Date.now()}`, authoritative ones
\* are assigned by the remote store.
TempId(ms) == << "temp", ms >>
RealId(n) == << "uuid", n >>
IsTemp(id) == id[1] = "temp"

RECURSIVE SumAmounts(_)
\* transactions.reduce((sum, t) => sum + t.amount, 0)
SumAmounts(s) == IF s = << >> THEN 0 ELSE Head(s).amount + SumAmounts(Tail(s))

\* prev.filter(t => t.id !== id)
WithoutId(s, id) == SelectSeq(s, LAMBDA t : t.id # id)

\* Remove the i-th element of a sequence.
RemoveAt(s, i) == SubSeq(s, 1, i - 1) \o SubSeq(s, i + 1, Len(s))

Range(s) == { s[i] : i \in 1..Len(s) }

\* The step taken last: the handler or reply, and the accountId its closure
\* saw.
Event(name, acct) == [ name |-> name, accountId |-> acct ]

\* The object store "transactions" (lines 56-59) with no record: the rows,
\* and the next key of its key generator (autoIncrement).
EmptyDb == [ rows |-> {}, nextKey |-> 1 ]

\* No backup file has been downloaded.
NoFile == [ valid |-> FALSE, transactions |-> << >>, listed |-> << >> ]

\* No gateway call is being followed.
NoCall == [ fn |-> "none", stage |-> "idle", answer |-> "none",
            thrown |-> FALSE, value |-> "none", calls |-> 0 ]

(***************************************************************************)
(* Remote ledger gateway (supabaseDataClient.js).  Every function catches  *)
(* the remote error and returns a sentinel; ok says whether the remote     *)
(* store served the request.                                               *)
(***************************************************************************)
\* getTransactions: the owner's rows, date descending.  All rows of a
\* behaviour carry the same date (todayISO()); the order among them is taken
\* to be newest first.  [] on error.
RECURSIVE NewestFirst(_)
NewestFirst(S) ==
    IF S = {} THEN << >>
    ELSE LET r == CHOOSE x \in S : \A y \in S : y.id[2] <= x.id[2]
         IN  << r >> \o NewestFirst(S \ {r})

getTransactions(ok, ownerEmail) ==
    IF ok THEN NewestFirst({ r \in remoteTxns : r.owner = ownerEmail })
    ELSE << >>

\* getAccountInfo: .single() yields the row when exactly one row matches and
\* an error otherwise; null (NoAccount row) on error.
NoAccountRow == [ id |-> NoAccount, owner |-> NoUser, balance |-> 0 ]

getAccountInfo(ok, ownerEmail) ==
    LET rows == { r \in remoteAccounts : r.owner = ownerEmail }
    IN  IF ok /\ Cardinality(rows) = 1 THEN CHOOSE r \in rows : TRUE
        ELSE NoAccountRow

\* getRecurringPayments: the owner's rows, next_date ascending; [] on error.
\* getBillReminders: the owner's rows, due_date ascending (all bills of a
\* behaviour carry the form's default due date, so the order is that of the
\* ids); [] on error.
Before(d, e) ==
    \/ d[1] < e[1]
    \/ d[1] = e[1] /\ d[2] < e[2]
    \/ d[1] = e[1] /\ d[2] = e[2] /\ d[3] < e[3]

Earlier(x, y) ==
    \/ Before(x.next_date, y.next_date)
    \/ x.next_date = y.next_date /\ x.id[2] < y.id[2]

RECURSIVE ByNextDate(_)
ByNextDate(S) ==
    IF S = {} THEN << >>
    ELSE LET r == CHOOSE x \in S : \A y \in S : y = x \/ Earlier(x, y)
         IN  << r >> \o ByNextDate(S \ {r})

RECURSIVE ByDueDate(_)
ByDueDate(S) ==
    IF S = {} THEN << >>
    ELSE LET r == CHOOSE x \in S : \A y \in S : x.id[2] <= y.id[2]
         IN  << r >> \o ByDueDate(S \ {r})

getRecurringPayments(ok, ownerEmail) ==
    IF ok THEN ByNextDate({ r \in remoteRecurring : r.owner = ownerEmail })
    ELSE << >>

getBillReminders(ok, ownerEmail) ==
    IF ok THEN ByDueDate({ r \in remoteBills : r.owner = ownerEmail })
    ELSE << >>

\* addTransaction: the row the insert returns (the store assigns the id).
InsertedTxn(transaction) ==
    [ id |-> RealId(Cardinality(remoteTxns) + 1), owner |-> transaction.owner,
      type |-> transaction.type, amount |-> transaction.amount,
      description |-> transaction.description ]

\* createAccount: the row the insert returns.
InsertedAccount(ownerEmail, balanceValue) ==
    [ id |-> Cardinality(remoteAccounts) + 1, owner |-> ownerEmail,
      balance |-> balanceValue ]

\* updateAccount(id, {balance}): .eq('id', id) ... .single(); succeeds only
\* when the row exists.
AccountRowExists(id) == \E r \in remoteAccounts : r.id = id

UpdatedAccounts(id, balanceValue) ==
    { IF r.id = id THEN [ r EXCEPT !.balance = balanceValue ] ELSE r :
        r \in remoteAccounts }

(***************************************************************************)
(* Initial state: nobody signed in, the view state as useState creates it  *)
(* (lines 204-222), an empty remote store.                                 *)
(***************************************************************************)
\* The state of the application when it is constructed.
InitView ==
    /\ user = NoUser
    /\ currentPage = "home"
    /\ balance = 0
    /\ accountId = NoAccount
    /\ transactions = << >>
    /\ recurringPayments = << >>
    /\ billReminders = << >>
    /\ ops = << >>
    /\ now = 0
    /\ started = 0
    /\ lastOp = Event("init", NoAccount)
    /\ billPayments = {}
    /\ deletedBills = {}
    /\ gatewayCall = NoCall
    /\ exported = NoFile

Init ==
    /\ InitView
    /\ remoteTxns = {}
    /\ remoteAccounts = {}
    /\ remoteRecurring = {}
    /\ remoteBills = {}
    /\ localDb = EmptyDb
    /\ timeZone = "east"

(***************************************************************************)
(* Sign in (AuthContext.signIn sets user) and the load it triggers.        *)
(***************************************************************************)
SignIn(o) ==
    /\ user = NoUser
    /\ user' = o
    /\ lastOp' = Event("signIn", accountId)
    /\ UNCHANGED << currentPage, balance, accountId, transactions, ops, now,
                    started, remoteTxns, remoteAccounts, sideVars >>

\* handleLogoutConfirmed (lines 378-384) with a sign-out that succeeds:
\* AuthContext.signOut clears user, then the page is set to "home".  The
\* ledger, the balance and accountId are left as they are.
SignOut ==
    /\ user # NoUser
    /\ currentPage \in { "dashboard", "recurringPayments", "billReminders",
                         "settings" }
    /\ user' = NoUser
    /\ currentPage' = "home"
    /\ lastOp' = Event("signOut", accountId)
    /\ UNCHANGED << balance, accountId, transactions, ops, now, started,
                    remoteTxns, remoteAccounts, sideVars >>

(***************************************************************************)
(* The local store (IndexedDB helpers, lines 35-130).                      *)
(***************************************************************************)
LocalId(k) == << "local", k >>

\* dbGetAllByOwner (lines 99-114): the cursor of the index byOwner yields
\* the owner's records in the order of their keys.
RECURSIVE ByKey(_)
ByKey(S) ==
    IF S = {} THEN << >>
    ELSE LET r == CHOOSE x \in S : \A y \in S : x.id[2] <= y.id[2]
         IN  << r >> \o ByKey(S \ {r})

dbGetAllByOwner(ownerEmail) ==
    ByKey({ r \in localDb.rows : r.owner = ownerEmail })

\* dbClearOwner (lines 116-130): the rows left when each record the index
\* yields for the owner is deleted.
dbClearOwner(ownerEmail) == { r \in localDb.rows : r.owner # ownerEmail }

\* Gateway functions the module imports (lines 5-20), under their local names.
GatewayImports ==
    { "getTransactions", "addSupabaseTransaction", "getSupabaseRecurringPayments",
      "addSupabaseRecurringPayment", "getSupabaseBillReminders",
      "addSupabaseBillReminder", "updateRecurringPayment", "updateBillReminder",
      "deleteRecurringPayment", "deleteBillReminder", "getSupabaseAccountInfo",
      "createSupabaseAccount", "updateSupabaseAccount",
      "deleteSupabaseTransaction" }

\* Line 332 calls syncLocalDataToSupabase; calling a name that the module
\* neither imports nor declares throws a ReferenceError.
SyncResolves == "syncLocalDataToSupabase" \in GatewayImports

\* syncLocalDataToSupabase (supabaseDataClient.js, lines 249-274): the rows
\* that the served inserts of the local transactions add; the function
\* returns true whichever inserts are served.
SyncedRows(served) ==
    { [ id |-> RealId(Cardinality(remoteTxns) + r.id[2]), owner |-> r.owner,
        type |-> r.type, amount |-> r.amount, description |-> r.description ] :
      r \in served }

\* fetchUserData (lines 291-350), run by the effect of lines 284-288 when
\* user is set.  okT, okR, okB and okA: whether the four reads are served.
\* The synchronisation of lines 324-343 runs when the local store holds a
\* record of the owner: when the call of line 332 throws, the catch of
\* lines 345-348 sets the page and the store is left as it is.
FetchUserData(okT, okR, okB, okA) ==
    /\ user # NoUser
    /\ currentPage = "home"
    /\ LET supabaseTransactions == getTransactions(okT, user)
           accountInfo == getAccountInfo(okA, user)
       IN  /\ transactions' = supabaseTransactions
           /\ recurringPayments' = getRecurringPayments(okR, user)
           /\ billReminders' = getBillReminders(okB, user)
           /\ IF accountInfo # NoAccountRow
                THEN /\ balance' = accountInfo.balance
                     /\ accountId' = accountInfo.id
                ELSE /\ balance' = SumAmounts(supabaseTransactions)
                     /\ UNCHANGED accountId
    /\ currentPage' = "dashboard"
    /\ lastOp' = Event("fetchUserData", accountId)
    /\ LET localTransactions == dbGetAllByOwner(user)
       IN  IF localTransactions # << >> /\ SyncResolves
           THEN /\ \E served \in SUBSET Range(localTransactions) :
                     remoteTxns' = remoteTxns \cup SyncedRows(served)
                /\ localDb' = [ localDb EXCEPT !.rows = dbClearOwner(user) ]
           ELSE UNCHANGED << remoteTxns, localDb >>
    /\ UNCHANGED << user, ops, now, started, remoteAccounts, remoteRecurring,
                    remoteBills, billPayments, deletedBills, timeZone,
                    gatewayCall, exported >>

(***************************************************************************)
(* Add transaction: AddTxn.handleAdd (lines 2535-2551) calls onAdd, which  *)
(* is addTransaction (lines 396-457, passed at line 1745).                 *)
(***************************************************************************)
\* Number(amount) * (type === "expense" ? -1 : 1)   (lines 400, 2019)
SignedAmount(type, amount) == IF type = "expense" THEN amount * (-1) ELSE amount

\* Variant of InsufficientBalance: the validation is missing.
InsufficientBalanceUnchecked(type, amount, bal) == FALSE

\* handleAdd's validation (lines 2537-2543): only an expense is checked.
InsufficientBalance(type, amount, bal) == type = "expense" /\ amount > bal

\* Variant of OptimisticBalance: the optimistic delta is not applied.
OptimisticBalanceNotApplied(acct, bal, amountValue) == bal

\* newBalance of lines 413-417: the optimistic balance when an account is
\* known, the unchanged balance otherwise.
OptimisticBalance(acct, bal, amountValue) ==
    IF acct # NoAccount THEN bal + amountValue ELSE bal

\* Date.now() read by a handler: the same millisecond as the previous read,
\* or a later one.
NextNow == IF now = 0 THEN {1} ELSE {now, now + 1}

\* Variant of Reconciled: the temporary record is not filtered out.
ReconciledKeepingTemp(prev, tempId, newTransaction) == << newTransaction >> \o prev

\* [newTransaction, ...prev.filter(t => t.id !== tempId)]   (lines 434-436)
Reconciled(prev, tempId, newTransaction) ==
    << newTransaction >> \o WithoutId(prev, tempId)

\* prev.filter(t => t.id !== tempId)   (line 444)
RolledBack(prev, tempId) == WithoutId(prev, tempId)

\* Variant of RevertedBalance: the balance is not restored.
RevertedBalanceNotRestored(acct, capturedBalance, bal) == bal

\* if (accountId) { setBalance(balance); }   (lines 445-447): the balance the
\* closure captured is restored when the closure saw an account.
RevertedBalance(acct, capturedBalance, bal) ==
    IF acct # NoAccount THEN capturedBalance ELSE bal

HandleAdd(type, amount) ==
    /\ currentPage = "dashboard"
    /\ user # NoUser
    /\ IF InsufficientBalance(type, amount, balance)
         THEN \* toast "Insufficient balance for this transaction!", return
              /\ lastOp' = Event("handleAddRejected", accountId)
              /\ UNCHANGED << balance, transactions, ops, now, started >>
         ELSE \* addTransaction up to its await (lines 396-431)
              /\ started < MaxOps
              /\ \E ms \in NextNow :
                   LET amountValue == SignedAmount(type, amount)
                       newBalance == OptimisticBalance(accountId, balance, amountValue)
                       tempTransaction == [ id |-> TempId(ms), owner |-> user,
                                            type |-> type, amount |-> amountValue,
                                            description |-> FormDescription ]
                       op == [ kind |-> "addTransaction", pc |-> "create",
                               owner |-> user,
                               type |-> type, amountValue |-> amountValue,
                               balance |-> balance, accountId |-> accountId,
                               newBalance |-> newBalance, tempId |-> TempId(ms),
                               ref |-> << >> ]
                   IN  /\ balance' = newBalance
                       /\ transactions' = << tempTransaction >> \o transactions
                       /\ ops' = Append(ops, op)
                       /\ now' = ms
                       /\ started' = started + 1
                       /\ lastOp' = Event("addTransaction", accountId)
    /\ UNCHANGED << user, currentPage, accountId, remoteTxns, remoteAccounts,
                    sideVars >>

\* The reply to addSupabaseTransaction and the code after the await
\* (lines 431-448).  The gateway returns the inserted row, or null.
CreateReply(i, ok) ==
    /\ i \in 1..Len(ops)
    /\ ops[i].kind = "addTransaction"
    /\ ops[i].pc = "create"
    /\ LET op == ops[i]
           newTransaction == InsertedTxn([ owner |-> op.owner, type |-> op.type,
                                           amount |-> op.amountValue,
                                           description |-> FormDescription ])
       IN  IF ok
           THEN /\ remoteTxns' = remoteTxns \cup {newTransaction}
                /\ transactions' = Reconciled(transactions, op.tempId, newTransaction)
                /\ ops' = IF op.accountId # NoAccount
                             THEN [ ops EXCEPT ![i].pc = "updateAccount" ]
                             ELSE RemoveAt(ops, i)
                /\ lastOp' = Event("createOk", op.accountId)
                /\ UNCHANGED balance
           ELSE /\ transactions' = RolledBack(transactions, op.tempId)
                /\ balance' = RevertedBalance(op.accountId, op.balance, balance)
                /\ ops' = RemoveAt(ops, i)
                /\ lastOp' = Event("createFail", op.accountId)
                /\ UNCHANGED remoteTxns
    /\ UNCHANGED << user, currentPage, accountId, now, started, remoteAccounts,
                    sideVars >>

\* The reply to updateSupabaseAccount(accountId, { balance: newBalance })
\* (lines 439-441); addTransaction ignores the result.
AccountUpdateReply(i, ok) ==
    /\ i \in 1..Len(ops)
    /\ ops[i].kind = "addTransaction"
    /\ ops[i].pc = "updateAccount"
    /\ LET op == ops[i]
       IN  /\ remoteAccounts' = IF ok /\ AccountRowExists(op.accountId)
                                  THEN UpdatedAccounts(op.accountId, op.newBalance)
                                  ELSE remoteAccounts
           /\ lastOp' = Event("accountUpdated", op.accountId)
    /\ ops' = RemoveAt(ops, i)
    /\ UNCHANGED << user, currentPage, balance, accountId, transactions, now,
                    started, remoteTxns, sideVars >>

(***************************************************************************)
(* Dashboard (lines 1958-2460).  Dashboard is a function of the module's   *)
(* top level; the names it can use are its props, its own declarations and *)
(* the module's imports and declarations.                                  *)
(***************************************************************************)
\* Props of Dashboard (lines 1958-1961).
DashboardProps ==
    { "user", "transactions", "onAdd", "onRecurringPayments", "onBillReminders",
      "onStatements", "onProfileClick", "profileImage", "showBalance",
      "setShowBalance", "balance", "setBalance", "accountNumber",
      "setAccountNumber", "accountId", "setAccountId", "showBalancePopup",
      "setShowBalancePopup", "newBalance", "setNewBalance" }

\* A name used inside Dashboard resolves iff it is a prop or an import;
\* calling an unresolved name throws a ReferenceError.
ResolvesInDashboard(name) == name \in DashboardProps \cup GatewayImports

\* handleSaveBalance (lines 1972-2000) up to its await; balanceValue is
\* parseFloat(newBalance), a number.
HandleSaveBalance(balanceValue) ==
    /\ currentPage = "dashboard"
    /\ user # NoUser
    /\ started < MaxOps
    /\ LET op == [ kind |-> "handleSaveBalance",
                   pc |-> IF accountId # NoAccount THEN "saveUpdate"
                          ELSE "saveCreate",
                   owner |-> user, type |-> "none", amountValue |-> 0,
                   balance |-> balance, accountId |-> accountId,
                   newBalance |-> balanceValue, tempId |-> TempId(0),
                   ref |-> << >> ]
       IN  /\ ops' = Append(ops, op)
           /\ lastOp' = Event("handleSaveBalance", accountId)
    /\ started' = started + 1
    /\ UNCHANGED << user, currentPage, balance, accountId, transactions, now,
                    remoteTxns, remoteAccounts, sideVars >>

\* The reply to updateSupabaseAccount / createSupabaseAccount and the code
\* after the await (lines 1981-1998).
SaveBalanceReply(i, ok) ==
    /\ i \in 1..Len(ops)
    /\ ops[i].kind = "handleSaveBalance"
    /\ LET op == ops[i]
           served == IF op.pc = "saveUpdate"
                     THEN ok /\ AccountRowExists(op.accountId)
                     ELSE ok
           row == IF op.pc = "saveUpdate"
                  THEN [ id |-> op.accountId, owner |-> op.owner,
                         balance |-> op.newBalance ]
                  ELSE InsertedAccount(op.owner, op.newBalance)
       IN  /\ IF served
                THEN /\ remoteAccounts' =
                          IF op.pc = "saveUpdate"
                          THEN UpdatedAccounts(op.accountId, op.newBalance)
                          ELSE remoteAccounts \cup {row}
                     /\ balance' = op.newBalance
                     /\ accountId' = row.id
                ELSE UNCHANGED << remoteAccounts, balance, accountId >>
           /\ lastOp' = Event(IF served THEN "saveOk" ELSE "saveFail",
                              op.accountId)
    /\ ops' = RemoveAt(ops, i)
    /\ UNCHANGED << user, currentPage, transactions, now, started, remoteTxns,
                    sideVars >>

\* saveEditedTransaction (lines 2014-2080) for editingTransaction = t and
\* editForm = {type, amount}, as startEditingTransaction (lines 2003-2011)
\* and the form's inputs set them.  The first statement that touches state,
\* setTransactions(...) at line 2031, throws a ReferenceError: the name does
\* not resolve in Dashboard.  The catch of line 2077 logs it; nothing after
\* line 2031 runs (updateTransaction, line 2051, does not resolve either).
SaveEditedTransaction(t, type, amount) ==
    /\ currentPage = "dashboard"
    /\ user # NoUser
    /\ t \in Range(transactions)
    /\ ~ResolvesInDashboard("setTransactions")
    /\ lastOp' = Event("saveEditedTransaction", accountId)
    /\ UNCHANGED << user, currentPage, balance, accountId, transactions, ops,
                    now, started, remoteTxns, remoteAccounts, sideVars >>

\* handleDeleteTransaction(id) (lines 2083-2134), called by
\* executeDeleteTransaction (lines 2148-2153).  After the record is found,
\* setTransactions(...) at line 2091 throws a ReferenceError, which leaves the
\* handler: no state is changed and no remote deletion is issued.
HandleDeleteTransaction(id) ==
    /\ currentPage = "dashboard"
    /\ user # NoUser
    /\ \E t \in Range(transactions) : t.id = id
    /\ ~ResolvesInDashboard("setTransactions")
    /\ lastOp' = Event("handleDeleteTransaction", accountId)
    /\ UNCHANGED << user, currentPage, balance, accountId, transactions, ops,
                    now, started, remoteTxns, remoteAccounts, sideVars >>

(***************************************************************************)
(* Navigation between the pages of a signed-in owner: the dashboard's      *)
(* buttons (lines 1746-1747), the header's settings button (line 1735) and *)
(* the pages' Back buttons (lines 816, 1323, 1784).                        *)
(***************************************************************************)
SidePages == { "recurringPayments", "billReminders", "settings" }

OpenPage(p) ==
    /\ user # NoUser
    /\ currentPage \in SidePages \cup {"dashboard"}
    /\ p # currentPage
    /\ \/ currentPage = "dashboard" /\ p \in SidePages
       \/ p = "dashboard"
       \/ p = "settings"
    /\ currentPage' = p
    /\ lastOp' = Event("openPage", accountId)
    /\ UNCHANGED << user, balance, accountId, transactions, ops, now, started,
                    remoteTxns, remoteAccounts, sideVars >>

(***************************************************************************)
(* Calendar dates.  A date is << year, month, day >>; next_date is the     *)
(* string "YYYY-MM-DD" such a triple stands for.                           *)
(***************************************************************************)
IsLeap(y) == (y % 4 = 0 /\ y % 100 # 0) \/ y % 400 = 0

DaysInMonth(y, m) ==
    IF m = 2 THEN (IF IsLeap(y) THEN 29 ELSE 28)
    ELSE IF m \in {4, 6, 9, 11} THEN 30 ELSE 31

IsDate(date) ==
    /\ date[2] \in 1..12
    /\ date[3] \in 1..DaysInMonth(date[1], date[2])

\* The date JavaScript's Date makes of year y, month m (1..24) and day
\* d >= 1: months beyond December carry into the year, days beyond the end
\* of the month carry into the following months.
RECURSIVE MakeDay(_, _, _)
MakeDay(y, m, d) ==
    IF m > 12 THEN MakeDay(y + 1, m - 12, d)
    ELSE IF d > DaysInMonth(y, m) THEN MakeDay(y, m + 1, d - DaysInMonth(y, m))
    ELSE << y, m, d >>

NextDay(date) == MakeDay(date[1], date[2], date[3] + 1)

PrevDay(date) ==
    IF date[3] > 1 THEN << date[1], date[2], date[3] - 1 >>
    ELSE IF date[2] > 1
         THEN << date[1], date[2] - 1, DaysInMonth(date[1], date[2] - 1) >>
         ELSE << date[1] - 1, 12, 31 >>

\* new Date("YYYY-MM-DD") is midnight UTC of that date; getDate, getMonth
\* and getFullYear read it in local time: the same date east of UTC
\* (offset >= 0), the day before west of UTC.
LocalDate(zone, date) == IF zone = "west" THEN PrevDay(date) ELSE date

\* toISOString().slice(0, 10): the UTC date of a local date that keeps the
\* local time of day.
IsoDate(zone, local) == IF zone = "west" THEN NextDay(local) ELSE local

\* The switch of lines 604-617 on the local date l.
SetNextDate(frequency, l) ==
    CASE frequency = "weekly" -> MakeDay(l[1], l[2], l[3] + 7)
      [] frequency = "monthly" -> MakeDay(l[1], l[2] + 1, l[3])
      [] frequency = "quarterly" -> MakeDay(l[1], l[2] + 3, l[3])
      [] frequency = "yearly" -> MakeDay(l[1] + 1, l[2], l[3])
      [] OTHER -> l

\* updatedPayment.next_date of lines 603-622.
AdvancedDate(zone, frequency, next_date) ==
    IsoDate(zone, SetNextDate(frequency, LocalDate(zone, next_date)))

(***************************************************************************)
(* Recurring payments (lines 508-641).  A payment row is                   *)
(* [id, owner, description, amount, frequency, next_date].                 *)
(***************************************************************************)
Frequencies == { "weekly", "monthly", "quarterly", "yearly" }

PaymentId(n) == << "payment", n >>

\* `${payment.description} (Recurring)`   (lines 564, 579)
RecurringDescription(payment) == << payment.description, "(Recurring)" >>

\* addRecurringPayment (lines 508-530) up to its await.  The form's amount
\* field has min="0" (line 846).
AddRecurringPayment(amount, frequency, nextDate) ==
    /\ currentPage = "recurringPayments"
    /\ user # NoUser
    /\ started < MaxOps
    /\ LET payment == [ id |-> PaymentId(started + 1), owner |-> user,
                        description |-> "rent", amount |-> amount,
                        frequency |-> frequency, next_date |-> nextDate ]
           op == [ kind |-> "addRecurringPayment", pc |-> "createPayment",
                   owner |-> user, type |-> "none", amountValue |-> 0,
                   balance |-> balance, accountId |-> accountId,
                   newBalance |-> balance, tempId |-> TempId(0),
                   ref |-> << payment >> ]
       IN  ops' = Append(ops, op)
    /\ started' = started + 1
    /\ lastOp' = Event("addRecurringPayment", accountId)
    /\ UNCHANGED << user, currentPage, balance, accountId, transactions, now,
                    remoteTxns, remoteAccounts, sideVars >>

\* The reply to addSupabaseRecurringPayment (lines 523-526).
PaymentCreateReply(i, ok) ==
    /\ i \in 1..Len(ops)
    /\ ops[i].kind = "addRecurringPayment"
    /\ LET newPayment == ops[i].ref[1]
       IN  IF ok
           THEN /\ remoteRecurring' = remoteRecurring \cup {newPayment}
                /\ recurringPayments' = Append(recurringPayments, newPayment)
           ELSE UNCHANGED scheduleVars
    /\ ops' = RemoveAt(ops, i)
    /\ lastOp' = Event(IF ok THEN "paymentCreated" ELSE "paymentCreateFail",
                       ops[i].accountId)
    /\ UNCHANGED << user, currentPage, balance, accountId, transactions, now,
                    started, remoteTxns, remoteAccounts, billVars, localDb,
                    timeZone, gatewayCall,
                    exported >>

\* processRecurringPayment(payment) (lines 546-571) up to its await, for a
\* payment of the displayed list (line 915).
ProcessRecurringPayment(payment) ==
    /\ currentPage = "recurringPayments"
    /\ user # NoUser
    /\ payment \in Range(recurringPayments)
    /\ started < MaxOps
    /\ \E ms \in NextNow :
         LET amountValue == payment.amount * (-1)
             newBalance == OptimisticBalance(accountId, balance, amountValue)
             tempTransaction == [ id |-> TempId(ms), owner |-> user,
                                  type |-> "expense", amount |-> amountValue,
                                  description |-> RecurringDescription(payment) ]
             op == [ kind |-> "processRecurringPayment", pc |-> "create",
                     owner |-> user, type |-> "expense",
                     amountValue |-> amountValue, balance |-> balance,
                     accountId |-> accountId, newBalance |-> newBalance,
                     tempId |-> TempId(ms), ref |-> << payment >> ]
         IN  /\ balance' = newBalance
             /\ transactions' = << tempTransaction >> \o transactions
             /\ ops' = Append(ops, op)
             /\ now' = ms
    /\ started' = started + 1
    /\ lastOp' = Event("processRecurringPayment", accountId)
    /\ UNCHANGED << user, currentPage, accountId, remoteTxns, remoteAccounts,
                    sideVars >>

\* What processRecurringPayment awaits next once the create has answered
\* (lines 584-627): the account update when the create succeeded and an
\* account was known, the schedule update otherwise; the else branch of
\* lines 594-600 falls through to line 602.
ScheduleStepAfterCreate(ok, acct) ==
    IF ok /\ acct # NoAccount THEN "updateAccount" ELSE "updateSchedule"

\* The reply to addSupabaseTransaction and the code after the await
\* (lines 575-627).
RecurringCreateReply(i, ok) ==
    /\ i \in 1..Len(ops)
    /\ ops[i].kind = "processRecurringPayment"
    /\ ops[i].pc = "create"
    /\ LET op == ops[i]
           newTransaction ==
               InsertedTxn([ owner |-> op.owner, type |-> "expense",
                             amount |-> op.amountValue,
                             description |-> RecurringDescription(op.ref[1]) ])
           step == ScheduleStepAfterCreate(ok, op.accountId)
       IN  /\ IF ok
                THEN /\ remoteTxns' = remoteTxns \cup {newTransaction}
                     /\ transactions' =
                            Reconciled(transactions, op.tempId, newTransaction)
                     /\ UNCHANGED balance
                ELSE /\ transactions' = RolledBack(transactions, op.tempId)
                     /\ balance' = RevertedBalance(op.accountId, op.balance, balance)
                     /\ UNCHANGED remoteTxns
           /\ ops' = [ ops EXCEPT ![i].pc = step ]
           /\ lastOp' = Event(IF ok THEN "recurringCreateOk"
                              ELSE "recurringCreateFail", op.accountId)
    /\ UNCHANGED << user, currentPage, accountId, now, started, remoteAccounts,
                    sideVars >>

\* The reply to updateSupabaseAccount (lines 591-593); the result is ignored
\* and the schedule update follows.
RecurringAccountUpdateReply(i, ok) ==
    /\ i \in 1..Len(ops)
    /\ ops[i].kind = "processRecurringPayment"
    /\ ops[i].pc = "updateAccount"
    /\ LET op == ops[i]
       IN  /\ remoteAccounts' = IF ok /\ AccountRowExists(op.accountId)
                                  THEN UpdatedAccounts(op.accountId, op.newBalance)
                                  ELSE remoteAccounts
           /\ lastOp' = Event("recurringAccountUpdated", op.accountId)
    /\ ops' = [ ops EXCEPT ![i].pc = "updateSchedule" ]
    /\ UNCHANGED << user, currentPage, balance, accountId, transactions, now,
                    started, remoteTxns, sideVars >>

\* updateRecurringPayment(id, { next_date }) of the gateway: the updated row,
\* or null when the store fails or holds no such row.
PaymentRowExists(id) == \E r \in remoteRecurring : r.id = id

UpdatedPayments(id, nextDate) ==
    { IF r.id = id THEN [ r EXCEPT !.next_date = nextDate ] ELSE r :
        r \in remoteRecurring }

\* prev.map(p => p.id === payment.id ? result : p)   (lines 629-631)
ReplacedById(prev, result) ==
    [ k \in 1..Len(prev) |-> IF prev[k].id = result.id THEN result ELSE prev[k] ]

\* The reply to updateRecurringPayment (lines 625-632).
ScheduleUpdateReply(i, ok) ==
    /\ i \in 1..Len(ops)
    /\ ops[i].kind = "processRecurringPayment"
    /\ ops[i].pc = "updateSchedule"
    /\ LET payment == ops[i].ref[1]
           nextDate == AdvancedDate(timeZone, payment.frequency, payment.next_date)
           served == ok /\ PaymentRowExists(payment.id)
           result == CHOOSE r \in UpdatedPayments(payment.id, nextDate) :
                        r.id = payment.id
       IN  /\ IF served
                THEN /\ remoteRecurring' = UpdatedPayments(payment.id, nextDate)
                     /\ recurringPayments' = ReplacedById(recurringPayments, result)
                ELSE UNCHANGED scheduleVars
           /\ lastOp' = Event(IF served THEN "scheduleUpdated"
                              ELSE "scheduleUpdateFail", ops[i].accountId)
    /\ ops' = RemoveAt(ops, i)
    /\ UNCHANGED << user, currentPage, balance, accountId, transactions, now,
                    started, remoteTxns, remoteAccounts, billVars, localDb,
                    timeZone, gatewayCall,
                    exported >>

\* The handlers App declares with const inside its body; inside App such a
\* name hides an import of the same name.
AppDeclarations ==
    { "fetchUserData", "handleLogoutConfirmed", "handleDeleteConfirmed",
      "addTransaction", "exportJSON", "importJSON", "addRecurringPayment",
      "deleteRecurringPayment", "processRecurringPayment",
      "addBillReminderLocal", "markBillAsPaidLocal", "deleteBillReminderLocal" }

\* The function that the call deleteRecurringPayment(id) of line 537 runs:
\* the handler of line 532 itself when App declares that name, the
\* gateway function of line 14 otherwise.
DeleteCallee ==
    IF "deleteRecurringPayment" \in AppDeclarations THEN "handler" ELSE "gateway"

\* deleteRecurringPayment (lines 532-544, button at line 922).  When the
\* callee is the handler, each call calls the handler again before it
\* reaches an await, until the call stack is exhausted; the RangeError is
\* caught (lines 541-543), every pending call ends with success undefined
\* and nothing is removed.  When it is the gateway function, the deletion
\* is issued and awaited.
DeleteRecurringPayment(id) ==
    /\ user # NoUser
    /\ currentPage = "recurringPayments"
    /\ \E k \in 1..Len(recurringPayments) : recurringPayments[k].id = id
    /\ IF DeleteCallee = "gateway"
         THEN /\ started < MaxOps
              /\ ops' = Append(ops, [ kind |-> "deleteRecurringPayment",
                                      pc |-> "deleteSchedule", owner |-> user,
                                      balance |-> balance,
                                      accountId |-> accountId,
                                      ref |-> << id >> ])
              /\ started' = started + 1
              /\ lastOp' = Event("deleteRecurringPayment", accountId)
         ELSE /\ lastOp' = Event("deleteRecurringOverflow", accountId)
              /\ UNCHANGED << ops, started >>
    /\ UNCHANGED << user, currentPage, balance, accountId, transactions, now,
                    remoteTxns, remoteAccounts, sideVars >>

(***************************************************************************)
(* Bill reminders (lines 644-761, page at lines 1280-1480).  A bill row is *)
(* [id, owner, description, amount, is_paid].                              *)
(***************************************************************************)
BillId(n) == << "bill", n >>

\* Variant of BillPaymentDescription: the suffix is missing.
BillPaymentDescriptionPlain(bill) == << bill.description, "" >>

\* `${bill.description} (Bill Payment)`   (lines 691, 706)
BillPaymentDescription(bill) == << bill.description, "(Bill Payment)" >>

\* addBillReminderLocal (lines 644-666) up to its await.  The form's amount
\* field has min="0" (line 1353); is_paid starts false (line 653).
AddBillReminderLocal(amount) ==
    /\ currentPage = "billReminders"
    /\ user # NoUser
    /\ started < MaxOps
    /\ LET reminder == [ id |-> BillId(started + 1), owner |-> user,
                         description |-> "power", amount |-> amount,
                         is_paid |-> FALSE ]
           op == [ kind |-> "addBillReminder", pc |-> "createBill",
                   owner |-> user, type |-> "none", amountValue |-> 0,
                   balance |-> balance, accountId |-> accountId,
                   newBalance |-> balance, tempId |-> TempId(0),
                   ref |-> << reminder >> ]
       IN  ops' = Append(ops, op)
    /\ started' = started + 1
    /\ lastOp' = Event("addBillReminder", accountId)
    /\ UNCHANGED << user, currentPage, balance, accountId, transactions, now,
                    remoteTxns, remoteAccounts, sideVars >>

\* The reply to addSupabaseBillReminder (lines 659-662).
BillCreateReply(i, ok) ==
    /\ i \in 1..Len(ops)
    /\ ops[i].kind = "addBillReminder"
    /\ LET newReminder == ops[i].ref[1]
       IN  IF ok
           THEN /\ remoteBills' = remoteBills \cup {newReminder}
                /\ billReminders' = Append(billReminders, newReminder)
           ELSE UNCHANGED << remoteBills, billReminders >>
    /\ ops' = RemoveAt(ops, i)
    /\ lastOp' = Event(IF ok THEN "billCreated" ELSE "billCreateFail",
                       ops[i].accountId)
    /\ UNCHANGED << user, currentPage, balance, accountId, transactions, now,
                    started, remoteTxns, remoteAccounts, scheduleVars,
                    billPayments, deletedBills, localDb, timeZone, gatewayCall,
                    exported >>

\* markBillAsPaidLocal(id) (lines 668-698) up to its await.  The page offers
\* the button for the bills of the list that are not paid (lines 1308,
\* 1400-1421); the handler looks the bill up in the list (lines 671-672).
MarkBillAsPaidLocal(id) ==
    /\ currentPage = "billReminders"
    /\ user # NoUser
    /\ started < MaxOps
    /\ \E bill \in Range(billReminders), ms \in NextNow :
         /\ bill.id = id
         /\ ~bill.is_paid
         /\ LET amountValue == bill.amount * (-1)
                newBalance == OptimisticBalance(accountId, balance, amountValue)
                tempTransaction == [ id |-> TempId(ms), owner |-> user,
                                     type |-> "expense", amount |-> amountValue,
                                     description |-> BillPaymentDescription(bill) ]
                op == [ kind |-> "markBillAsPaid", pc |-> "create",
                        owner |-> user, type |-> "expense",
                        amountValue |-> amountValue, balance |-> balance,
                        accountId |-> accountId, newBalance |-> newBalance,
                        tempId |-> TempId(ms), ref |-> << bill >> ]
            IN  /\ balance' = newBalance
                /\ transactions' = << tempTransaction >> \o transactions
                /\ ops' = Append(ops, op)
                /\ now' = ms
    /\ started' = started + 1
    /\ lastOp' = Event("markBillAsPaid", accountId)
    /\ UNCHANGED << user, currentPage, accountId, remoteTxns, remoteAccounts,
                    sideVars >>

\* What markBillAsPaidLocal awaits next once the create has answered
\* (lines 711-733): the account update when the create succeeded and an
\* account was known, the bill update otherwise; the else branch of lines
\* 721-727 falls through to line 729.
BillStepAfterCreate(ok, acct) ==
    IF ok /\ acct # NoAccount THEN "updateAccount" ELSE "updateBill"

\* The reply to addSupabaseTransaction and the code after the await
\* (lines 702-733).
BillPaymentCreateReply(i, ok) ==
    /\ i \in 1..Len(ops)
    /\ ops[i].kind = "markBillAsPaid"
    /\ ops[i].pc = "create"
    /\ LET op == ops[i]
           newTransaction ==
               InsertedTxn([ owner |-> op.owner, type |-> "expense",
                             amount |-> op.amountValue,
                             description |-> BillPaymentDescription(op.ref[1]) ])
       IN  /\ IF ok
                THEN /\ remoteTxns' = remoteTxns \cup {newTransaction}
                     /\ transactions' =
                            Reconciled(transactions, op.tempId, newTransaction)
                     /\ billPayments' =
                            billPayments \cup { << op.ref[1].id, newTransaction.id >> }
                     /\ UNCHANGED balance
                ELSE /\ transactions' = RolledBack(transactions, op.tempId)
                     /\ balance' = RevertedBalance(op.accountId, op.balance, balance)
                     /\ UNCHANGED << remoteTxns, billPayments >>
           /\ ops' = [ ops EXCEPT ![i].pc = BillStepAfterCreate(ok, op.accountId) ]
           /\ lastOp' = Event(IF ok THEN "billPaymentCreateOk"
                              ELSE "billPaymentCreateFail", op.accountId)
    /\ UNCHANGED << user, currentPage, accountId, now, started, remoteAccounts,
                    scheduleVars, billReminders, remoteBills, deletedBills,
                    localDb, timeZone, gatewayCall,
                    exported >>

\* The reply to updateSupabaseAccount (lines 718-720); the result is ignored
\* and the bill update follows.
BillAccountUpdateReply(i, ok) ==
    /\ i \in 1..Len(ops)
    /\ ops[i].kind = "markBillAsPaid"
    /\ ops[i].pc = "updateAccount"
    /\ LET op == ops[i]
       IN  /\ remoteAccounts' = IF ok /\ AccountRowExists(op.accountId)
                                  THEN UpdatedAccounts(op.accountId, op.newBalance)
                                  ELSE remoteAccounts
           /\ lastOp' = Event("billAccountUpdated", op.accountId)
    /\ ops' = [ ops EXCEPT ![i].pc = "updateBill" ]
    /\ UNCHANGED << user, currentPage, balance, accountId, transactions, now,
                    started, remoteTxns, sideVars >>

\* updateBillReminder(id, { is_paid: true }) of the gateway: the updated
\* row, or null when the store fails or holds no such row.
BillRowExists(id) == \E r \in remoteBills : r.id = id

PaidBills(id) ==
    { IF r.id = id THEN [ r EXCEPT !.is_paid = TRUE ] ELSE r : r \in remoteBills }

\* The reply to updateBillReminder (lines 733-738).
BillUpdateReply(i, ok) ==
    /\ i \in 1..Len(ops)
    /\ ops[i].kind = "markBillAsPaid"
    /\ ops[i].pc = "updateBill"
    /\ LET id == ops[i].ref[1].id
           served == ok /\ BillRowExists(id)
           result == CHOOSE r \in PaidBills(id) : r.id = id
       IN  /\ IF served
                THEN /\ remoteBills' = PaidBills(id)
                     /\ billReminders' = ReplacedById(billReminders, result)
                ELSE UNCHANGED << remoteBills, billReminders >>
           /\ lastOp' = Event(IF served THEN "billPaid" ELSE "billUpdateFail",
                              ops[i].accountId)
    /\ ops' = RemoveAt(ops, i)
    /\ UNCHANGED << user, currentPage, balance, accountId, transactions, now,
                    started, remoteTxns, remoteAccounts, scheduleVars,
                    billPayments, deletedBills, localDb, timeZone, gatewayCall,
                    exported >>

\* deleteBillReminderLocal(id) (lines 749-754) up to its await, for a bill
\* of the list, paid or not (lines 1428, 1457).
DeleteBillReminderLocal(id) ==
    /\ currentPage = "billReminders"
    /\ user # NoUser
    /\ started < MaxOps
    /\ \E bill \in Range(billReminders) :
         /\ bill.id = id
         /\ ops' = Append(ops, [ kind |-> "deleteBillReminder", pc |-> "deleteBill",
                                 owner |-> user, type |-> "none", amountValue |-> 0,
                                 balance |-> balance, accountId |-> accountId,
                                 newBalance |-> balance, tempId |-> TempId(0),
                                 ref |-> << bill >> ])
    /\ started' = started + 1
    /\ lastOp' = Event("deleteBillReminder", accountId)
    /\ UNCHANGED << user, currentPage, balance, accountId, transactions, now,
                    remoteTxns, remoteAccounts, sideVars >>

\* Variant of BillsWithout: the deleted bill stays in the list.
BillsKept(prev, id) == prev

\* prev.filter(b => b.id !== id)   (line 756)
BillsWithout(prev, id) == WithoutId(prev, id)

\* The reply to deleteBillReminder (lines 754-757).
BillDeleteReply(i, ok) ==
    /\ i \in 1..Len(ops)
    /\ ops[i].kind = "deleteBillReminder"
    /\ LET id == ops[i].ref[1].id
       IN  IF ok
           THEN /\ remoteBills' = { r \in remoteBills : r.id # id }
                /\ billReminders' = BillsWithout(billReminders, id)
                /\ deletedBills' = deletedBills \cup {id}
           ELSE UNCHANGED << remoteBills, billReminders, deletedBills >>
    /\ ops' = RemoveAt(ops, i)
    /\ lastOp' = Event(IF ok THEN "billDeleted" ELSE "billDeleteFail",
                       ops[i].accountId)
    /\ UNCHANGED << user, currentPage, balance, accountId, transactions, now,
                    started, remoteTxns, remoteAccounts, scheduleVars,
                    billPayments, localDb, timeZone, gatewayCall,
                    exported >>

(***************************************************************************)
(* Import of a backup (Settings, line 2481; importJSON, lines 473-505).    *)
(* Each await of the handler is a point where other handlers can run.      *)
(***************************************************************************)
\* dbWrite("transactions", { ...t, id: undefined, ownerEmail }) (lines 81-88,
\* 482): the key generator assigns the key.
WrittenRow(t, ownerEmail) ==
    [ id |-> LocalId(localDb.nextKey), owner |-> ownerEmail, type |-> t.type,
      amount |-> t.amount, description |-> t.description ]

\* A record of a backup document.
BackupRecord(amount) ==
    [ type |-> IF amount < 0 THEN "expense" ELSE "income", amount |-> amount,
      description |-> FormDescription ]

\* The files picked for import: parsed documents with a transactions array
\* of up to two records, and one without the array.
ImportFiles ==
    { [ valid |-> TRUE, transactions |-> << >> ],
      [ valid |-> TRUE, transactions |-> << BackupRecord(2) >> ],
      [ valid |-> TRUE, transactions |-> << BackupRecord(2), BackupRecord(-1) >> ],
      [ valid |-> FALSE, transactions |-> << >> ] }

\* importJSON up to its first await that touches the store: the file is
\* read and parsed; a document without the array ends with an alert.
ImportJSON(file) ==
    /\ user # NoUser
    /\ currentPage = "settings"
    /\ IF file.valid
         THEN /\ started < MaxOps
              /\ ops' = Append(ops, [ kind |-> "importJSON", pc |-> "clear",
                                      owner |-> user, balance |-> balance,
                                      accountId |-> accountId,
                                      newBalance |-> balance,
                                      parsed |-> file.transactions,
                                      written |-> 0 ])
              /\ started' = started + 1
              /\ lastOp' = Event("importJSON", accountId)
         ELSE /\ lastOp' = Event("importInvalid", accountId)
              /\ UNCHANGED << ops, started >>
    /\ UNCHANGED << user, currentPage, balance, accountId, transactions, now,
                    remoteTxns, remoteAccounts, sideVars >>

\* await dbClearOwner(user.email) (line 480).
ImportClear(i) ==
    /\ i \in 1..Len(ops)
    /\ ops[i].kind = "importJSON"
    /\ ops[i].pc = "clear"
    /\ localDb' = [ localDb EXCEPT !.rows = dbClearOwner(ops[i].owner) ]
    /\ ops' = [ ops EXCEPT ![i].pc = IF ops[i].parsed = << >> THEN "read"
                                                               ELSE "write" ]
    /\ lastOp' = Event("importCleared", ops[i].accountId)
    /\ UNCHANGED << user, currentPage, balance, accountId, transactions, now,
                    started, remoteTxns, remoteAccounts, scheduleVars, billVars,
                    timeZone, gatewayCall,
                    exported >>

\* One turn of the loop of lines 481-483: await dbWrite(...).
ImportWrite(i) ==
    /\ i \in 1..Len(ops)
    /\ ops[i].kind = "importJSON"
    /\ ops[i].pc = "write"
    /\ LET op == ops[i]
           t == op.parsed[op.written + 1]
       IN  /\ localDb' = [ rows |-> localDb.rows \cup {WrittenRow(t, op.owner)},
                           nextKey |-> localDb.nextKey + 1 ]
           /\ ops' = [ ops EXCEPT ![i].written = op.written + 1,
                                  ![i].pc = IF op.written + 1 = Len(op.parsed)
                                               THEN "read" ELSE "write" ]
           /\ lastOp' = Event("importWritten", op.accountId)
    /\ UNCHANGED << user, currentPage, balance, accountId, transactions, now,
                    started, remoteTxns, remoteAccounts, scheduleVars, billVars,
                    timeZone, gatewayCall,
                    exported >>

\* Lines 484-496: the owner's records are read back and become the list;
\* with an account id the balance becomes the balance of the call plus the
\* sum of the records read, and the account update is issued.
ImportRead(i) ==
    /\ i \in 1..Len(ops)
    /\ ops[i].kind = "importJSON"
    /\ ops[i].pc = "read"
    /\ LET op == ops[i]
           updated == dbGetAllByOwner(op.owner)
           total == op.balance + SumAmounts(updated)
       IN  /\ transactions' = updated
           /\ IF op.accountId # NoAccount
                THEN /\ balance' = total
                     /\ ops' = [ ops EXCEPT ![i].pc = "importUpdateAccount",
                                            ![i].newBalance = total ]
                ELSE /\ UNCHANGED balance
                     /\ ops' = RemoveAt(ops, i)
           /\ lastOp' = Event("importRead", op.accountId)
    /\ UNCHANGED << user, currentPage, accountId, now, started, remoteTxns,
                    remoteAccounts, sideVars >>

\* The reply to updateSupabaseAccount(accountId, { balance: total })
\* (line 495); the result is ignored, then "Transactions imported".
ImportAccountReply(i, ok) ==
    /\ i \in 1..Len(ops)
    /\ ops[i].kind = "importJSON"
    /\ ops[i].pc = "importUpdateAccount"
    /\ LET op == ops[i]
       IN  /\ remoteAccounts' = IF ok /\ AccountRowExists(op.accountId)
                                  THEN UpdatedAccounts(op.accountId, op.newBalance)
                                  ELSE remoteAccounts
           /\ lastOp' = Event("importDone", op.accountId)
    /\ ops' = RemoveAt(ops, i)
    /\ UNCHANGED << user, currentPage, balance, accountId, transactions, now,
                    started, remoteTxns, sideVars >>

\* JSON.stringify and JSON.parse of a record of the store: every field of
\* the record is defined, so each is written and read back; the key is the
\* plain number.
JsonRecord(r) ==
    [ id |-> r.id[2], ownerEmail |-> r.owner, type |-> r.type,
      amount |-> r.amount, description |-> r.description ]

JsonRecords(rows) == [ k \in 1..Len(rows) |-> JsonRecord(rows[k]) ]

\* exportJSON (lines 460-471, Settings line 2480): the document holds the
\* records dbGetAllByOwner yields.  listed is history: the in-memory list
\* at the time of the export.
ExportJSON ==
    /\ user # NoUser
    /\ currentPage = "settings"
    /\ exported' = [ valid |-> TRUE,
                     transactions |-> JsonRecords(dbGetAllByOwner(user)),
                     listed |-> transactions ]
    /\ lastOp' = Event("exportJSON", accountId)
    /\ UNCHANGED << user, currentPage, balance, accountId, transactions, ops,
                    now, started, remoteTxns, remoteAccounts, scheduleVars,
                    billVars, localDb, timeZone, gatewayCall >>

\* The files that can be picked for an import of the last backup.
DownloadedFiles == IF exported.valid THEN { exported } ELSE {}

(***************************************************************************)
(* The gateway functions (supabaseDataClient.js, lines 4-246).  Each is    *)
(* try { const { data, error } = await <query>; if (error) throw error;   *)
(* return <result> } catch (error) { console.error(...); return <value> }. *)
(***************************************************************************)
ListFunctions == { "getTransactions", "getRecurringPayments", "getBillReminders" }

CreateFunctions ==
    { "addTransaction", "addRecurringPayment", "addBillReminder", "createAccount" }

UpdateFunctions ==
    { "updateTransaction", "updateRecurringPayment", "updateBillReminder",
      "updateAccount" }

DeleteFunctions ==
    { "deleteTransaction", "deleteRecurringPayment", "deleteBillReminder" }

GatewayFunctions ==
    ListFunctions \cup CreateFunctions \cup UpdateFunctions \cup DeleteFunctions
      \cup { "getAccountInfo" }

\* What the awaited query does: it resolves with data, it resolves with an
\* error, or its promise is rejected (the request could not be made).
RemoteAnswers == { "data", "error", "rejected" }

\* The try block: the await throws when the promise is rejected, and
\* `if (error) throw error` throws when the answer carries an error.
Raises(answer) == answer \in { "error", "rejected" }

\* The value of the return statement of the try block.
Returned(fn) == IF fn \in DeleteFunctions THEN "true" ELSE "data"

\* The value of the return statement of the catch block.
CatchValue(fn) ==
    IF fn \in ListFunctions THEN "[]"
    ELSE IF fn \in DeleteFunctions THEN "false"
    ELSE "null"

\* Variant of Outcome: the function has no catch block.
OutcomeUncaught(fn, answer) ==
    IF Raises(answer) THEN [ thrown |-> TRUE, value |-> "none" ]
    ELSE [ thrown |-> FALSE, value |-> Returned(fn) ]

\* What the caller's await observes: an exception, or a value.
Outcome(fn, answer) ==
    IF Raises(answer) THEN [ thrown |-> FALSE, value |-> CatchValue(fn) ]
    ELSE [ thrown |-> FALSE, value |-> Returned(fn) ]

\* A caller invokes a gateway function; the query is sent.
GatewayInvoke(fn) ==
    /\ gatewayCall.stage \in { "idle", "returned" }
    /\ gatewayCall.calls < MaxCalls
    /\ gatewayCall' = [ fn |-> fn, stage |-> "awaiting", answer |-> "none",
                        thrown |-> FALSE, value |-> "none",
                        calls |-> gatewayCall.calls + 1 ]
    /\ UNCHANGED << user, currentPage, balance, accountId, transactions, ops,
                    now, started, remoteTxns, remoteAccounts, lastOp,
                    scheduleVars, billVars, localDb, timeZone, exported >>

\* The query is answered and the function runs to its end.
GatewayAnswer(answer) ==
    /\ gatewayCall.stage = "awaiting"
    /\ LET outcome == Outcome(gatewayCall.fn, answer)
       IN  gatewayCall' = [ gatewayCall EXCEPT !.stage = "returned",
                                                !.answer = answer,
                                                !.thrown = outcome.thrown,
                                                !.value = outcome.value ]
    /\ UNCHANGED << user, currentPage, balance, accountId, transactions, ops,
                    now, started, remoteTxns, remoteAccounts, lastOp,
                    scheduleVars, billVars, localDb, timeZone, exported >>

(***************************************************************************)
(* Specification.                                                          *)
(***************************************************************************)
Next ==
    \/ \E o \in Owners : SignIn(o)
    \/ \E okT \in BOOLEAN, okR \in BOOLEAN, okB \in BOOLEAN, okA \in BOOLEAN :
          FetchUserData(okT, okR, okB, okA)
    \/ \E type \in Types, amount \in AmountInputs : HandleAdd(type, amount)
    \/ \E i \in 1..Len(ops), ok \in BOOLEAN : CreateReply(i, ok)
    \/ \E i \in 1..Len(ops), ok \in BOOLEAN : AccountUpdateReply(i, ok)
    \/ \E v \in BalanceInputs : HandleSaveBalance(v)
    \/ \E i \in 1..Len(ops), ok \in BOOLEAN : SaveBalanceReply(i, ok)
    \/ \E t \in Range(transactions), type \in Types, amount \in AmountInputs :
          SaveEditedTransaction(t, type, amount)
    \/ \E t \in Range(transactions) : HandleDeleteTransaction(t.id)

Spec == Init /\ [][Next]_vars

\* An owner who comes back: the remote store may already hold the owner's
\* account row.
StoredAccount == [ id |-> 1, owner |-> "a", balance |-> StoredBalance ]

\* The account popup of a returning owner, whose account read may fail.
InitAccount ==
    /\ InitView
    /\ remoteTxns = {}
    /\ remoteAccounts \in { {}, {StoredAccount} }
    /\ remoteRecurring = {}
    /\ remoteBills = {}
    /\ localDb = EmptyDb
    /\ timeZone = "east"

NextAccount ==
    \/ \E o \in Owners : SignIn(o)
    \/ \E okT \in BOOLEAN, okR \in BOOLEAN, okB \in BOOLEAN, okA \in BOOLEAN :
          FetchUserData(okT, okR, okB, okA)
    \/ \E type \in Types, amount \in AmountInputs : HandleAdd(type, amount)
    \/ \E i \in 1..Len(ops), ok \in BOOLEAN : CreateReply(i, ok)
    \/ \E i \in 1..Len(ops), ok \in BOOLEAN : AccountUpdateReply(i, ok)
    \/ \E v \in BalanceInputs : HandleSaveBalance(v)
    \/ \E i \in 1..Len(ops), ok \in BOOLEAN : SaveBalanceReply(i, ok)

SpecAccount == InitAccount /\ [][NextAccount]_vars

\* The ledger of a returning owner with an account: transactions are added
\* while earlier ones wait for their replies.
InitOverlap ==
    /\ InitView
    /\ remoteTxns = {}
    /\ remoteAccounts = {StoredAccount}
    /\ remoteRecurring = {}
    /\ remoteBills = {}
    /\ localDb = EmptyDb
    /\ timeZone = "east"

NextOverlap ==
    \/ \E o \in Owners : SignIn(o)
    \/ \E okT \in BOOLEAN, okR \in BOOLEAN, okB \in BOOLEAN, okA \in BOOLEAN :
          FetchUserData(okT, okR, okB, okA)
    \/ \E type \in Types, amount \in AmountInputs : HandleAdd(type, amount)
    \/ \E i \in 1..Len(ops), ok \in BOOLEAN : CreateReply(i, ok)
    \/ \E i \in 1..Len(ops), ok \in BOOLEAN : AccountUpdateReply(i, ok)

SpecOverlap == InitOverlap /\ [][NextOverlap]_vars

\* Two owners who use the application one after the other; the first has an
\* account row, the second has none.
TwoOwners == { "a", "b" }

InitOwners ==
    /\ InitView
    /\ remoteTxns = {}
    /\ remoteAccounts = {StoredAccount}
    /\ remoteRecurring = {}
    /\ remoteBills = {}
    /\ localDb = EmptyDb
    /\ timeZone = "east"

NextOwners ==
    \/ \E o \in TwoOwners : SignIn(o)
    \/ SignOut
    \/ \E okT \in BOOLEAN, okR \in BOOLEAN, okB \in BOOLEAN, okA \in BOOLEAN :
          FetchUserData(okT, okR, okB, okA)
    \/ \E type \in Types, amount \in AmountInputs : HandleAdd(type, amount)
    \/ \E i \in 1..Len(ops), ok \in BOOLEAN : CreateReply(i, ok)
    \/ \E i \in 1..Len(ops), ok \in BOOLEAN : AccountUpdateReply(i, ok)

SpecOwners == InitOwners /\ [][NextOwners]_vars

\* The gateway functions, called one after the other with every answer of
\* the remote store.
InitGateway ==
    /\ InitView
    /\ remoteTxns = {}
    /\ remoteAccounts = {}
    /\ remoteRecurring = {}
    /\ remoteBills = {}
    /\ localDb = EmptyDb
    /\ timeZone = "east"

NextGateway ==
    \/ \E fn \in GatewayFunctions : GatewayInvoke(fn)
    \/ \E answer \in RemoteAnswers : GatewayAnswer(answer)

SpecGateway == InitGateway /\ [][NextGateway]_vars

\* Backup and restore.  The owner may have a confirmed transaction and an
\* account in the remote store, and a record of an earlier import in the
\* local store.
StoredTxn ==
    [ id |-> RealId(1), owner |-> "a", type |-> "income", amount |-> 2,
      description |-> FormDescription ]

InitBackup ==
    /\ InitView
    /\ remoteTxns \in { {}, {StoredTxn} }
    /\ remoteAccounts \in { {}, {StoredAccount} }
    /\ remoteRecurring = {}
    /\ remoteBills = {}
    /\ localDb \in { EmptyDb,
                      [ rows |-> { [ id |-> LocalId(1), owner |-> "a",
                                     type |-> "income", amount |-> 1,
                                     description |-> FormDescription ] },
                        nextKey |-> 2 ] }
    /\ timeZone = "east"

NextBackup ==
    \/ \E o \in Owners : SignIn(o)
    \/ \E okT \in BOOLEAN, okR \in BOOLEAN, okB \in BOOLEAN, okA \in BOOLEAN :
          FetchUserData(okT, okR, okB, okA)
    \/ \E p \in { "dashboard", "settings" } : OpenPage(p)
    \/ ExportJSON
    \/ \E file \in DownloadedFiles : ImportJSON(file)
    \/ \E i \in 1..Len(ops) : ImportClear(i)
    \/ \E i \in 1..Len(ops) : ImportWrite(i)
    \/ \E i \in 1..Len(ops) : ImportRead(i)
    \/ \E i \in 1..Len(ops), ok \in BOOLEAN : ImportAccountReply(i, ok)

SpecBackup == InitBackup /\ [][NextBackup]_vars

\* Import.  The local store may hold records that earlier imports of this
\* owner and of another owner left in it.
StoredRow(k, o) ==
    [ id |-> LocalId(k), owner |-> o, type |-> "income", amount |-> 1,
      description |-> FormDescription ]

InitImport ==
    /\ InitView
    /\ remoteTxns = {}
    /\ remoteAccounts \in { {}, {StoredAccount} }
    /\ remoteRecurring = {}
    /\ remoteBills = {}
    /\ localDb \in { EmptyDb,
                      [ rows |-> { StoredRow(1, "b") }, nextKey |-> 2 ],
                      [ rows |-> { StoredRow(1, "b"), StoredRow(2, "a") },
                        nextKey |-> 3 ] }
    /\ timeZone = "east"

NextImport ==
    \/ \E o \in Owners : SignIn(o)
    \/ \E okT \in BOOLEAN, okR \in BOOLEAN, okB \in BOOLEAN, okA \in BOOLEAN :
          FetchUserData(okT, okR, okB, okA)
    \/ \E p \in { "dashboard", "settings" } : OpenPage(p)
    \/ \E file \in ImportFiles : ImportJSON(file)
    \/ \E i \in 1..Len(ops) : ImportClear(i)
    \/ \E i \in 1..Len(ops) : ImportWrite(i)
    \/ \E i \in 1..Len(ops) : ImportRead(i)
    \/ \E i \in 1..Len(ops), ok \in BOOLEAN : ImportAccountReply(i, ok)

SpecImport == InitImport /\ [][NextImport]_vars

\* Recurring payments.  The store may hold one payment of the owner; the
\* browser is east or west of UTC.
StoredPayment(frequency, nextDate) ==
    [ id |-> PaymentId(0), owner |-> "a", description |-> "rent",
      amount |-> 1, frequency |-> frequency, next_date |-> nextDate ]

InitRecurring ==
    /\ InitView
    /\ remoteTxns = {}
    /\ remoteAccounts \in { {}, {StoredAccount} }
    /\ remoteRecurring \in
          { {} } \cup { { StoredPayment(f, d) } : f \in Frequencies, d \in DateInputs }
    /\ remoteBills = {}
    /\ localDb = EmptyDb
    /\ timeZone \in { "east", "west" }

NextRecurring ==
    \/ \E o \in Owners : SignIn(o)
    \/ \E okT \in BOOLEAN, okR \in BOOLEAN, okB \in BOOLEAN, okA \in BOOLEAN :
          FetchUserData(okT, okR, okB, okA)
    \/ \E p \in { "dashboard", "recurringPayments" } : OpenPage(p)
    \/ \E amount \in ScheduledAmountInputs, f \in { "weekly", "monthly" },
          d \in PickedDates :
          AddRecurringPayment(amount, f, d)
    \/ \E i \in 1..Len(ops), ok \in BOOLEAN : PaymentCreateReply(i, ok)
    \/ \E payment \in Range(recurringPayments) : ProcessRecurringPayment(payment)
    \/ \E i \in 1..Len(ops), ok \in BOOLEAN : RecurringCreateReply(i, ok)
    \/ \E i \in 1..Len(ops), ok \in BOOLEAN : RecurringAccountUpdateReply(i, ok)
    \/ \E i \in 1..Len(ops), ok \in BOOLEAN : ScheduleUpdateReply(i, ok)
    \/ \E payment \in Range(recurringPayments) :
          DeleteRecurringPayment(payment.id)

SpecRecurring == InitRecurring /\ [][NextRecurring]_vars

\* Bill reminders.  The store may hold one unpaid bill of the owner.
StoredBill ==
    [ id |-> BillId(0), owner |-> "a", description |-> "power", amount |-> 1,
      is_paid |-> FALSE ]

InitBills ==
    /\ InitView
    /\ remoteTxns = {}
    /\ remoteAccounts \in { {}, {StoredAccount} }
    /\ remoteRecurring = {}
    /\ remoteBills \in { {}, {StoredBill} }
    /\ localDb = EmptyDb
    /\ timeZone = "east"

NextBills ==
    \/ \E o \in Owners : SignIn(o)
    \/ \E okT \in BOOLEAN, okR \in BOOLEAN, okB \in BOOLEAN, okA \in BOOLEAN :
          FetchUserData(okT, okR, okB, okA)
    \/ \E p \in { "dashboard", "billReminders" } : OpenPage(p)
    \/ \E amount \in ScheduledAmountInputs : AddBillReminderLocal(amount)
    \/ \E i \in 1..Len(ops), ok \in BOOLEAN : BillCreateReply(i, ok)
    \/ \E bill \in Range(billReminders) : MarkBillAsPaidLocal(bill.id)
    \/ \E i \in 1..Len(ops), ok \in BOOLEAN : BillPaymentCreateReply(i, ok)
    \/ \E i \in 1..Len(ops), ok \in BOOLEAN : BillAccountUpdateReply(i, ok)
    \/ \E i \in 1..Len(ops), ok \in BOOLEAN : BillUpdateReply(i, ok)
    \/ \E bill \in Range(billReminders) : DeleteBillReminderLocal(bill.id)
    \/ \E i \in 1..Len(ops), ok \in BOOLEAN : BillDeleteReply(i, ok)

SpecBills == InitBills /\ [][NextBills]_vars

\* The three handlers that create a transaction, started from their pages
\* while earlier ones wait for their replies.  The store holds one payment
\* and one unpaid bill of the owner.
InitCreators ==
    /\ InitView
    /\ remoteTxns = {}
    /\ remoteAccounts = {StoredAccount}
    /\ remoteRecurring = { StoredPayment("weekly", << 2025, 12, 28 >>) }
    /\ remoteBills = {StoredBill}
    /\ localDb = EmptyDb
    /\ timeZone = "east"

NextCreators ==
    \/ \E o \in Owners : SignIn(o)
    \/ \E okA \in BOOLEAN : FetchUserData(TRUE, TRUE, TRUE, okA)
    \/ \E p \in { "dashboard", "recurringPayments", "billReminders" } : OpenPage(p)
    \/ \E amount \in BalanceInputs : HandleAdd("income", amount)
    \/ \E i \in 1..Len(ops), ok \in BOOLEAN : CreateReply(i, ok)
    \/ \E i \in 1..Len(ops), ok \in BOOLEAN : AccountUpdateReply(i, ok)
    \/ \E payment \in Range(recurringPayments) : ProcessRecurringPayment(payment)
    \/ \E i \in 1..Len(ops), ok \in BOOLEAN : RecurringCreateReply(i, ok)
    \/ \E i \in 1..Len(ops), ok \in BOOLEAN : RecurringAccountUpdateReply(i, ok)
    \/ \E i \in 1..Len(ops), ok \in BOOLEAN : ScheduleUpdateReply(i, ok)
    \/ \E bill \in Range(billReminders) : MarkBillAsPaidLocal(bill.id)
    \/ \E i \in 1..Len(ops), ok \in BOOLEAN : BillPaymentCreateReply(i, ok)
    \/ \E i \in 1..Len(ops), ok \in BOOLEAN : BillAccountUpdateReply(i, ok)
    \/ \E i \in 1..Len(ops), ok \in BOOLEAN : BillUpdateReply(i, ok)

SpecCreators == InitCreators /\ [][NextCreators]_vars

\* The same handlers for an owner whose account holds a balance of zero.
EmptyAccount == [ id |-> 1, owner |-> "a", balance |-> 0 ]

InitExpenses ==
    /\ InitView
    /\ remoteTxns = {}
    /\ remoteAccounts = {EmptyAccount}
    /\ remoteRecurring = { StoredPayment("weekly", << 2025, 12, 28 >>) }
    /\ remoteBills = {StoredBill}
    /\ localDb = EmptyDb
    /\ timeZone = "east"

SpecExpenses == InitExpenses /\ [][NextCreators]_vars

(***************************************************************************)
(* Properties.  A step is identified by the action that takes it: in       *)
(* [][A => P]_vars, A is an action of the model with its inputs and P      *)
(* relates the state before the step (unprimed) to the state after it      *)
(* (primed).                                                               *)
(***************************************************************************)
RECURSIVE SumSet(_)
SumSet(S) == IF S = {} THEN 0
             ELSE LET r == CHOOSE x \in S : TRUE
                  IN  r.amount + SumSet(S \ {r})

ConfirmedOf(o) == { r \in remoteTxns : r.owner = o }

HasId(s, id) == \E k \in 1..Len(s) : s[k].id = id

\* Number of account-balance updates waiting at the gateway, and of those
\* for account acct that carry balance b.
AccountUpdatesInFlight(o) ==
    Cardinality({ k \in 1..Len(o) : o[k].pc = "updateAccount" })

AccountUpdatesCarrying(o, acct, b) ==
    Cardinality({ k \in 1..Len(o) : /\ o[k].pc = "updateAccount"
                                     /\ o[k].accountId = acct
                                     /\ o[k].newBalance = b })

\* The signed amount the specification assigns to a form input.
Signed(type, amount) == IF type = "expense" THEN 0 - amount ELSE amount

\* C1: whenever no operation is in flight, the displayed balance equals the
\* sum of the signed amounts of the owner's confirmed transactions.
C1_BalanceIsSumOfConfirmed ==
    (user # NoUser /\ currentPage = "dashboard" /\ ops = << >>)
        => balance = SumSet(ConfirmedOf(user))

\* C2 as stated: when a failed remote create has been handled, the
\* displayed balance equals its value before the addTransaction call and
\* the list holds no record with the temporary id.
C2_FailedCreateRestoresPreCallBalance ==
    [][ \A i \in 1..Len(ops) :
          CreateReply(i, FALSE)
            => /\ balance' = ops[i].balance
               /\ ~HasId(transactions', ops[i].tempId) ]_vars

\* C2 amended: when a failed remote create has been handled, the list holds
\* no record with the temporary id; the displayed balance equals its value
\* before the call when an account was known at the call, and is left as it
\* is by the failure handling when none was known.
C2_FailedCreateRollsBack ==
    [][ \A i \in 1..Len(ops) :
          CreateReply(i, FALSE)
            => /\ ~HasId(transactions', ops[i].tempId)
               /\ ops[i].accountId # NoAccount => balance' = ops[i].balance
               /\ ops[i].accountId = NoAccount => balance' = balance ]_vars

\* A failed create of an operation that saw an account has just been
\* handled, and the balance it restored differs from the optimistic one.
C2_Witness ==
    /\ lastOp = Event("createFail", 1)
    /\ remoteTxns = {}
    /\ transactions = << >>
    /\ ops = << >>
    /\ balance = 2

C5_EditAppliesDelta ==
    [][ \A t \in Range(transactions), type \in Types, amount \in AmountInputs :
          ( SaveEditedTransaction(t, type, amount) /\ accountId # NoAccount )
            => /\ balance' = balance + (Signed(type, amount) - t.amount)
               /\ Len(transactions') = Len(transactions)
               /\ \A k \in 1..Len(transactions) :
                     IF transactions[k].id = t.id
                     THEN /\ transactions'[k].id = t.id
                          /\ transactions'[k].type = type
                          /\ transactions'[k].amount = Signed(type, amount)
                     ELSE transactions'[k] = transactions[k] ]_vars

\* C7: a handleDeleteTransaction call on a listed transaction with signed
\* amount A, with an account, that meets no failure of the gateway removes
\* the record from the list and changes the displayed balance by -A.
C7_DeleteAppliesDelta ==
    [][ \A t \in Range(transactions) :
          ( HandleDeleteTransaction(t.id) /\ accountId # NoAccount )
            => /\ balance' = balance - t.amount
               /\ ~HasId(transactions', t.id) ]_vars

\* C9: an expense submitted through the add form with an amount above the
\* current balance is rejected before any mutation: the balance and the
\* list are unchanged, no operation is started, nothing reaches the remote
\* store.
C9_InsufficientBalanceRejected ==
    [][ \A amount \in AmountInputs :
          ( HandleAdd("expense", amount) /\ amount > balance )
            => /\ lastOp'.name = "handleAddRejected"
               /\ UNCHANGED << balance, transactions, ops, started, remoteTxns,
                               remoteAccounts, accountId >> ]_vars

\* An expense above the balance of an owner with an account has just been
\* rejected.
C9_Witness ==
    /\ lastOp = Event("handleAddRejected", 1)
    /\ accountId = 1
    /\ balance < 2
    /\ remoteTxns # {}

\* C10: every transaction in the in-memory list and in the remote ledger
\* has an amount whose sign matches its kind: positive for income,
\* negative for expense.
SignMatchesKind(t) ==
    /\ t.type = "income" => t.amount > 0
    /\ t.type = "expense" => t.amount < 0

C10_SignMatchesKind ==
    /\ \A k \in 1..Len(transactions) : SignMatchesKind(transactions[k])
    /\ \A r \in remoteTxns : SignMatchesKind(r)

ScheduleUpdatesInFlight(o) ==
    Cardinality({ k \in 1..Len(o) : o[k].pc = "updateSchedule" })

\* C11: when the remote create inside processRecurringPayment fails, the
\* schedule is not advanced: the step issues no schedule update to the
\* gateway and the displayed next-occurrence dates are unchanged.
C11_FailedCreateKeepsSchedule ==
    [][ \A i \in 1..Len(ops) :
          RecurringCreateReply(i, FALSE)
            => /\ ScheduleUpdatesInFlight(ops') = ScheduleUpdatesInFlight(ops)
               /\ UNCHANGED << recurringPayments, remoteRecurring >> ]_vars

\* C18: a served schedule update of processRecurringPayment moves next_date
\* by exactly one interval of the payment's frequency: 7 days for weekly;
\* for monthly, quarterly and yearly a valid date inside the month that
\* lies 1, 3 and 12 months after the month of next_date, with the same day
\* of month when that month has it.
InMonthAfter(date, months, result) ==
    LET target == MakeDay(date[1], date[2] + months, 1)
    IN  /\ IsDate(result)
        /\ result[1] = target[1]
        /\ result[2] = target[2]
        /\ date[3] <= DaysInMonth(target[1], target[2]) => result[3] = date[3]

OneIntervalAfter(frequency, date, result) ==
    CASE frequency = "weekly" -> result = MakeDay(date[1], date[2], date[3] + 7)
      [] frequency = "monthly" -> InMonthAfter(date, 1, result)
      [] frequency = "quarterly" -> InMonthAfter(date, 3, result)
      [] frequency = "yearly" -> InMonthAfter(date, 12, result)

C18_AdvancesOneInterval ==
    [][ \A i \in 1..Len(ops) :
          ( ScheduleUpdateReply(i, TRUE) /\ PaymentRowExists(ops[i].ref[1].id) )
            => \A r \in remoteRecurring' :
                  r.id = ops[i].ref[1].id
                    => OneIntervalAfter(ops[i].ref[1].frequency,
                                        ops[i].ref[1].next_date, r.next_date) ]_vars

\* Number of the transactions confirmed as payments of bill id.
PaymentsOf(id) == Cardinality({ pr \in billPayments : pr[1] = id })

\* C12: whenever no operation is in flight, every bill of the list that is
\* marked paid has exactly one confirmed bill-payment transaction.
C12_PaidOnlyWithOnePayment ==
    ops = << >>
        => \A k \in 1..Len(billReminders) :
              billReminders[k].is_paid => PaymentsOf(billReminders[k].id) = 1

\* C13: markBillAsPaid on an unpaid bill of amount X, with an account: the
\* call lowers the displayed balance by X; the served create adds exactly
\* one transaction, an expense of amount -X whose description is the bill's
\* followed by the bill-payment suffix, at the head of the list in place of
\* the temporary record; the served bill update sets the paid flag; and no
\* step after the call changes the balance.
C13_MarkBillAsPaid ==
    [][ /\ \A bill \in Range(billReminders) :
              ( MarkBillAsPaidLocal(bill.id) /\ accountId # NoAccount )
                => /\ balance' = balance - bill.amount
                   /\ remoteTxns' = remoteTxns
        /\ \A i \in 1..Len(ops) :
              ( BillPaymentCreateReply(i, TRUE) /\ ops[i].accountId # NoAccount )
                => LET bill == ops[i].ref[1]
                       t == Head(transactions')
                   IN  /\ t \notin remoteTxns
                       /\ remoteTxns' = remoteTxns \cup {t}
                       /\ t.type = "expense"
                       /\ t.amount = 0 - bill.amount
                       /\ t.description = << bill.description, "(Bill Payment)" >>
                       /\ ~HasId(transactions', ops[i].tempId)
                       /\ balance' = balance
        /\ \A i \in 1..Len(ops), ok \in BOOLEAN :
              BillAccountUpdateReply(i, ok)
                => UNCHANGED << balance, transactions, remoteTxns >>
        /\ \A i \in 1..Len(ops) :
              ( BillUpdateReply(i, TRUE) /\ BillRowExists(ops[i].ref[1].id) )
                => /\ \A r \in remoteBills' :
                         r.id = ops[i].ref[1].id => r.is_paid
                   /\ \A k \in 1..Len(billReminders') :
                         billReminders'[k].id = ops[i].ref[1].id
                           => billReminders'[k].is_paid
                   /\ Len(billReminders') = Len(billReminders)
                   /\ UNCHANGED << balance, transactions, remoteTxns >> ]_vars

\* The stored bill of amount 1 has been paid by an owner whose account held
\* StoredBalance: every remote call was served, the balance is lower by 1,
\* the bill is paid and the list holds the one confirmed payment.
C13_Witness ==
    /\ lastOp = Event("billPaid", 1)
    /\ ops = << >>
    /\ accountId = 1
    /\ balance = StoredBalance - 1
    /\ Len(billReminders) = 1
    /\ billReminders[1].is_paid
    /\ Len(transactions) = 1
    /\ remoteTxns = { transactions[1] }
    /\ transactions[1].amount = -1
    /\ transactions[1].description = << "power", "(Bill Payment)" >>
    /\ \A r \in remoteAccounts : r.balance = StoredBalance - 1

\* C14: a bill only moves from unpaid to paid and from either to deleted:
\* in every step a bill that is paid, in the list or in the remote table,
\* is still paid afterwards if it is still there, and no bill whose
\* deletion was confirmed is in the list.
C14_BillLifecycle ==
    [][ /\ \A k \in 1..Len(billReminders), j \in 1..Len(billReminders') :
              ( billReminders[k].is_paid
                /\ billReminders'[j].id = billReminders[k].id )
                => billReminders'[j].is_paid
        /\ \A r \in remoteBills, q \in remoteBills' :
              ( r.is_paid /\ q.id = r.id ) => q.is_paid
        /\ \A j \in 1..Len(billReminders') :
              billReminders'[j].id \notin deletedBills' ]_vars

\* A bill that was paid has been deleted; the bill added meanwhile is not
\* affected.
C14_Witness ==
    /\ lastOp.name = "billDeleted"
    /\ BillId(0) \in deletedBills
    /\ PaymentsOf(BillId(0)) = 1
    /\ billReminders = << >>
    /\ remoteBills = {}
    /\ ops = << >>

HasAccount(o) == \E r \in remoteAccounts : r.owner = o

\* C15: handleSaveBalance with a numeric value issues one account create
\* and no update when the owner has no account, and one account update and
\* no create when the owner has one; a served reply sets the displayed
\* balance to the entered value and sets the account id, and a null result
\* leaves both as they are.
C15_SetOrCreateAccount ==
    [][ /\ \A v \in BalanceInputs :
              HandleSaveBalance(v)
                => /\ Len(ops') = Len(ops) + 1
                   /\ SubSeq(ops', 1, Len(ops)) = ops
                   /\ ops'[Len(ops')].newBalance = v
                   /\ ops'[Len(ops')].pc =
                        IF HasAccount(user) THEN "saveUpdate" ELSE "saveCreate"
        /\ \A i \in 1..Len(ops) :
              SaveBalanceReply(i, TRUE)
                => IF lastOp'.name = "saveOk"
                   THEN balance' = ops[i].newBalance /\ accountId' # NoAccount
                   ELSE UNCHANGED << balance, accountId >>
        /\ \A i \in 1..Len(ops) :
              SaveBalanceReply(i, FALSE) => UNCHANGED << balance, accountId >> ]_vars

\* C16: an account update that an operation other than handleSaveBalance
\* has issued is always for an owner who has an account record.
C16_NoAccountWriteWithoutAccount ==
    \A i \in 1..Len(ops) :
        ops[i].pc = "updateAccount" => HasAccount(ops[i].owner)

\* C17: while the owner has no account record, after data is loaded and
\* after each transaction is added the displayed balance is the sum of the
\* amounts of the in-memory transaction list.
C17_NoAccountBalanceIsSum ==
    ( /\ user # NoUser
      /\ currentPage = "dashboard"
      /\ ~HasAccount(user)
      /\ lastOp.name \in { "fetchUserData", "addTransaction", "createOk" } )
        => balance = SumAmounts(transactions)

\* The records of a set of rows or of a document, without their keys.
RowContent(r) ==
    [ owner |-> r.owner, type |-> r.type, amount |-> r.amount,
      description |-> r.description ]

RECURSIVE ContentOf(_, _)
ContentOf(parsed, o) ==
    IF parsed = << >> THEN << >>
    ELSE << [ owner |-> o, type |-> Head(parsed).type,
              amount |-> Head(parsed).amount,
              description |-> Head(parsed).description ] >>
           \o ContentOf(Tail(parsed), o)

RowsContent(rows) == [ k \in 1..Len(rows) |-> RowContent(rows[k]) ]

OthersRows(db, o) == { r \in db.rows : r.owner # o }

\* C20: when importJSON of a document with a transactions array has
\* written its records, the local store holds exactly the imported records
\* for the owner; no step of an import changes the records of other
\* owners; and when the owner has an account the balance becomes the
\* balance before the import plus the sum of the imported amounts.
C20_ImportReplaces ==
    [][ /\ \A i \in 1..Len(ops) :
              ImportRead(i)
                => /\ RowsContent(dbGetAllByOwner(ops[i].owner))
                        = ContentOf(ops[i].parsed, ops[i].owner)
                   /\ HasAccount(ops[i].owner)
                        => balance' = ops[i].balance + SumAmounts(ops[i].parsed)
        /\ \A i \in 1..Len(ops) :
              (ImportClear(i) \/ ImportWrite(i) \/ ImportRead(i))
                => OthersRows(localDb', ops[i].owner)
                     = OthersRows(localDb, ops[i].owner) ]_vars

\* C19: a gateway function whose query ends in a remote error returns to
\* its caller and never throws: the create and update functions and the
\* account read return null, the delete functions return false (and the
\* list functions an empty list).
C19_GatewayNeverThrows ==
    gatewayCall.stage = "returned"
      => /\ ~gatewayCall.thrown
         /\ gatewayCall.answer # "data"
              => /\ gatewayCall.fn \in CreateFunctions \cup UpdateFunctions
                                        \cup { "getAccountInfo" }
                      => gatewayCall.value = "null"
                 /\ gatewayCall.fn \in DeleteFunctions
                      => gatewayCall.value = "false"
                 /\ gatewayCall.fn \in ListFunctions
                      => gatewayCall.value = "[]"

C19_Witness ==
    /\ gatewayCall.stage = "returned"
    /\ gatewayCall.fn = "deleteBillReminder"
    /\ gatewayCall.answer = "rejected"
    /\ gatewayCall.value = "false"
    /\ gatewayCall.calls = MaxCalls

\* C21: when importJSON of the document that exportJSON produced has read
\* the store back, the in-memory list is equivalent (the same records, ids
\* aside) to the owner's list at the time of the export, and with an
\* account the balance is the balance at the start of the import plus the
\* sum of the amounts of that list.
C21_ExportImportRoundTrip ==
    [][ \A i \in 1..Len(ops) :
          ( /\ ImportRead(i)
            /\ exported.valid
            /\ ops[i].parsed = exported.transactions )
            => /\ RowsContent(transactions') = RowsContent(exported.listed)
               /\ ops[i].accountId # NoAccount
                    => balance' = ops[i].balance + SumAmounts(exported.listed)
      ]_vars

\* C22: when fetchUserData finds records of the owner in the local store,
\* no record of that owner remains in the store once it has completed, and
\* the records of other owners are still there.
C22_LoadClearsStagingBuffer ==
    [][ \A okT \in BOOLEAN, okR \in BOOLEAN, okB \in BOOLEAN, okA \in BOOLEAN :
          ( FetchUserData(okT, okR, okB, okA) /\ dbGetAllByOwner(user) # << >> )
            => /\ { r \in localDb'.rows : r.owner = user } = {}
               /\ OthersRows(localDb', user) = OthersRows(localDb, user) ]_vars

ListsPayment(list, id) == \E k \in 1..Len(list) : list[k].id = id

DeletionsInFlight(o, id) ==
    { k \in 1..Len(o) : o[k].kind = "deleteRecurringPayment" /\ o[k].ref = << id >> }

\* C23: deleteRecurringPayment(id) for a listed payment leaves the
\* transaction list and the balance unchanged, and it issues the remote
\* deletion whose success removes the payment from the list (or has
\* already removed it when it returns).
C23_DeleteRecurringPayment ==
    [][ \A payment \in Range(recurringPayments) :
          DeleteRecurringPayment(payment.id)
            => /\ UNCHANGED << transactions, balance >>
               /\ \/ ~ListsPayment(recurringPayments', payment.id)
                  \/ DeletionsInFlight(ops', payment.id) # {} ]_vars

\* C24: for an owner whose account was read at the load, once no operation
\* is in flight the displayed balance is the balance of the load plus the
\* sum of the amounts of the transactions confirmed since (every confirmed
\* row: the store held none at the load), also after overlapping
\* addTransaction calls of which an earlier one failed.
C24_NoLostUpdate ==
    ( /\ user # NoUser
      /\ currentPage = "dashboard"
      /\ accountId # NoAccount
      /\ ops = << >> )
        => balance = StoredBalance + SumSet(ConfirmedOf(user))

\* C25: for an owner whose account is known, once no operation is in
\* flight the balance of the remote account record equals the displayed
\* balance, whichever remote calls were served.
C25_RemoteBalanceIsDisplayed ==
    ( /\ user # NoUser
      /\ currentPage = "dashboard"
      /\ accountId # NoAccount
      /\ ops = << >> )
        => \A r \in remoteAccounts : r.id = accountId => r.balance = balance

Occurrences(list, id) == Cardinality({ k \in 1..Len(list) : list[k].id = id })

AccountCreatesInFlight(o) ==
    { k \in 1..Len(ops) : ops[k].pc = "saveCreate" /\ ops[k].owner = o }

\* C27: at most one account create per owner is waiting at the gateway,
\* and the store never holds two account records of one owner.
C27_OneAccountPerOwner ==
    \A o \in Owners :
        /\ Cardinality(AccountCreatesInFlight(o)) <= 1
        /\ Cardinality({ r \in remoteAccounts : r.owner = o }) <= 1

OwnsAccount(o, id) == \E r \in remoteAccounts : r.id = id /\ r.owner = o

\* C28: once the data of the signed-in owner is loaded, the account id in
\* use is that of an account of this owner or none, and every operation
\* that carries an account id carries one of its own owner.
C28_AccountIdOfSignedInOwner ==
    /\ ( user # NoUser /\ currentPage = "dashboard" )
          => ( accountId = NoAccount \/ OwnsAccount(user, accountId) )
    /\ \A i \in 1..Len(ops) :
          ops[i].accountId # NoAccount
            => OwnsAccount(ops[i].owner, ops[i].accountId)

\* The confirmed transactions that processRecurringPayment created for a
\* payment.
RecurringTxnsOf(payment) ==
    { r \in remoteTxns :
        r.owner = payment.owner /\ r.description = RecurringDescription(payment) }

\* The number of weeks between the next_date the store held at the start
\* and a later next_date (-1 when the date is no whole number of weeks
\* later).
WeeksAdvanced(date) ==
    LET start == << 2025, 12, 28 >>
        steps == { n \in 0..(MaxOps + 1) :
                     MakeDay(start[1], start[2], start[3] + 7 * n) = date }
    IN  IF steps = {} THEN 0 - 1 ELSE CHOOSE n \in steps : TRUE

\* C29: once no operation is in flight, the number of confirmed recurring
\* transactions of the weekly payment equals the number of intervals by
\* which its next_date has advanced in the store, also after two
\* overlapping processRecurringPayment calls on it.
C29_OneTransactionPerInterval ==
    ops = << >>
      => \A p \in remoteRecurring :
            Cardinality(RecurringTxnsOf(p)) = WeeksAdvanced(p.next_date)

\* C30: the displayed balance of an owner whose account is known, which
\* is not negative at the load, never becomes negative through
\* addTransaction, processRecurringPayment and markBillAsPaid.
C30_BalanceNeverNegative ==
    ( user # NoUser /\ currentPage # "home" /\ accountId # NoAccount )
        => balance >= 0

=============================================================================
